---- MODULE Spec2Model ----
(***************************************************************************)
(* gitdiffparser: the line tokenizer (src/line_parser.rs), the aggregator  *)
(* (src/aggregator.rs) and the pipeline that main.rs builds from them.     *)
(*                                                                         *)
(* Text lines are TLA+ strings.  A regular expression of line_parser.rs is *)
(* modelled by its value on each line of the alphabet Lines: Captures      *)
(* gives the named groups that took part in the match, NoMatch otherwise.  *)
(* A HashMap<String,String> is a function from the keys present to their   *)
(* values; an Option is <<>> (None) or <<x>> (Some(x)).                    *)
(***************************************************************************)
EXTENDS Integers, Sequences, FiniteSets, TLC

VARIABLES
    pc,          \* position of the run: "parse_lines", "parsed", "aggregator", "returned", "panic"
    input,       \* the lines the iterator has yielded so far
    state,       \* parse_lines: `state`
    parses,      \* parse_lines: `parses`
    result,      \* the value parse_lines returned: None, Some(Ok) or Some(Err)
    lines,       \* main: the events handed to aggregator
    n,           \* aggregator: number of events the loop has taken
    ev,          \* aggregator: the event of the current loop iteration (an Option)
    file_diff,   \* aggregator locals
    file_meta,
    chunk_diff,
    chunk_meta,
    file_diffs,
    panicked,    \* None, or Some(message) once the process has panicked
    hdrs,        \* history: <<from_file, to_file>> of every file_diff_header event taken
    nn,          \* history: no_newline events taken, per file_diff_header so far
    lastnn       \* history: per file_diff_header, whether the last line_diff or
                 \* no_newline event taken since is a no_newline event

vars == <<pc, input, state, parses, result, lines, n, ev, file_diff, file_meta,
          chunk_diff, chunk_meta, file_diffs, panicked, hdrs, nn, lastnn>>

tokVars == <<input, state, parses, result>>
aggVars == <<n, ev, file_diff, file_meta, chunk_diff, chunk_meta, file_diffs, hdrs, nn,
            lastnn>>

----------------------------------------------------------------------------
(* Bounds *)

MaxLines == 7
MaxEvents == 5

----------------------------------------------------------------------------
(* Option and HashMap *)

None == <<>>
Some(x) == <<x>>
IsSome(o) == o # <<>>
Unwrap(o) == o[1]

EmptyMap == [k \in {} |-> ""]
ContainsKey(m, k) == k \in DOMAIN m
Get(m, k) == IF k \in DOMAIN m THEN Some(m[k]) ELSE None
Insert(m, k, v) == [x \in DOMAIN m \cup {k} |-> IF x = k THEN v ELSE m[x]]

----------------------------------------------------------------------------
(* The input alphabet of the pipeline.  Captures also covers the lines that *)
(* only the aggregator's own events (AggEvents) are built from.            *)

Lines ==
    { "diff --git a/f b/f",
      "diff --git a/g b/h",
      "old mode 100644",
      "new mode 100755",
      "new file mode 100644",
      "deleted file mode 100644",
      "similarity index 90",
      "rename from g",
      "rename to h",
      "index e69de29..4b825dc 100644",
      "Binary files a/f and b/f differ",
      "--- a/f",
      "--- /dev/null",
      "+++ b/f",
      "@@ -1,2 +1,3 @@",
      "@@ -3 +5 @@ fn",
      "@@ -2 +2,3 @@",
      " line1",
      "-line2",
      "+line3",
      "\\ No newline at end of file",
      "garbage" }

NoMatch == [no_match |-> "no match"]

(* The named groups of each pattern of lines 9-27 on each line of Lines. *)
Captures(re, line) ==
    CASE re = "FILE_DIFF_HEADER" /\ line = "diff --git a/f b/f" ->
            [from_file |-> "f", to_file |-> "f"]
      [] re = "FILE_DIFF_HEADER" /\ line = "diff --git a/g b/h" ->
            [from_file |-> "g", to_file |-> "h"]
      [] re = "OLD_MODE_HEADER" /\ line = "old mode 100644" -> [mode |-> "100644"]
      [] re = "NEW_MODE_HEADER" /\ line = "new mode 100755" -> [mode |-> "100755"]
      [] re = "NEW_FILE_MODE_HEADER" /\ line = "new file mode 100644" -> [mode |-> "100644"]
      [] re = "DELETED_FILE_MODE_HEADER" /\ line = "deleted file mode 100644" ->
            [mode |-> "100644"]
      [] re = "INDEX_DIFF_HEADER" /\ line = "index e69de29..4b825dc 100644" ->
            [from_blob |-> "e69de29", to_blob |-> "4b825dc", mode |-> "100644"]
      [] re = "INDEX_DIFF_HEADER" /\ line = "index e69de29..4b825dc" ->
            [from_blob |-> "e69de29", to_blob |-> "4b825dc"]
      [] re = "BINARY_DIFF" /\ line = "Binary files a/f and b/f differ" ->
            [from_file |-> "a/f", to_file |-> "b/f"]
      [] re = "A_FILE_CHANGE_HEADER" /\ line = "--- a/f" -> [file |-> "f"]
      [] re = "A_FILE_CHANGE_HEADER" /\ line = "--- /dev/null" -> EmptyMap
      [] re = "B_FILE_CHANGE_HEADER" /\ line = "+++ b/f" -> [file |-> "f"]
      [] re = "B_FILE_CHANGE_HEADER" /\ line = "+++ b/h" -> [file |-> "h"]
      [] re = "B_FILE_CHANGE_HEADER" /\ line = "+++ /dev/null" -> EmptyMap
      [] re = "CHUNK_HEADER" /\ line = "@@ -1,2 +1,3 @@" ->
            [from_line_start |-> "1", from_line_count |-> "2",
             to_line_start |-> "1", to_line_count |-> "3", line |-> ""]
      [] re = "CHUNK_HEADER" /\ line = "@@ -2 +2,3 @@" ->
            [from_line_start |-> "2", to_line_start |-> "2", to_line_count |-> "3",
             line |-> ""]
      [] re = "CHUNK_HEADER" /\ line = "@@ -3 +5 @@ fn" ->
            [from_line_start |-> "3", to_line_start |-> "5", line |-> " fn"]
      [] re = "LINE_DIFF" /\ line = " line1" -> [action |-> " ", line |-> "line1"]
      [] re = "LINE_DIFF" /\ line = "-line2" -> [action |-> "-", line |-> "line2"]
      [] re = "LINE_DIFF" /\ line = "+line3" -> [action |-> "+", line |-> "line3"]
      [] re = "LINE_DIFF" /\ line = "--- a/f" -> [action |-> "-", line |-> "-- a/f"]
      [] re = "LINE_DIFF" /\ line = "--- /dev/null" ->
            [action |-> "-", line |-> "-- /dev/null"]
      [] re = "LINE_DIFF" /\ line = "+++ b/f" -> [action |-> "+", line |-> "++ b/f"]
      [] re = "LINE_DIFF" /\ line = "+++ b/h" -> [action |-> "+", line |-> "++ b/h"]
      [] re = "LINE_DIFF" /\ line = "+++ /dev/null" ->
            [action |-> "+", line |-> "++ /dev/null"]
      [] re = "NO_NEWLINE" /\ line = "\\ No newline at end of file" -> EmptyMap
      [] re = "RENAME_HEADER" /\ line = "similarity index 90" -> [rate |-> "90"]
      [] re = "RENAME_A_FILE" /\ line = "rename from g" -> [from_file |-> ""]
      [] re = "RENAME_B_FILE" /\ line = "rename to h" -> [to_file |-> ""]
      [] OTHER -> NoMatch

is_match(re, line) == Captures(re, line) # NoMatch

captures_to_map(re, text) == Captures(re, text)

----------------------------------------------------------------------------
(* line_parser.rs: parse_line *)

Ok(mode, captures) == [ok |-> TRUE, state |-> mode, parsed |-> captures]
Expected(msg) == [ok |-> FALSE, expected |-> msg]

(* A list that also lets a file diff header follow the two file change headers *)
FileDiffHeaderPrev_after_b_file ==
    { "start_of_file", "new_mode_header", "line_diff", "no_newline",
      "index_diff_header", "binary_diff", "rename_b_file", "b_file_change_header" }

FileDiffHeaderPrev ==
    { "start_of_file", "new_mode_header", "line_diff", "no_newline",
      "index_diff_header", "binary_diff", "rename_b_file" }

(* A list that also lets an index header follow a binary line *)
IndexDiffHeaderPrev_after_binary ==
    { "rename_b_file", "file_diff_header", "new_mode_header",
      "new_file_mode_header", "deleted_file_mode_header", "binary_diff" }

IndexDiffHeaderPrev ==
    { "rename_b_file", "file_diff_header", "new_mode_header",
      "new_file_mode_header", "deleted_file_mode_header" }

(* A list that also lets a chunk header follow a chunk header *)
ChunkHeaderPrev_after_chunk ==
    { "b_file_change_header", "line_diff", "no_newline", "chunk_header" }

ChunkHeaderPrev == { "b_file_change_header", "line_diff", "no_newline" }

LineDiffPrev == { "chunk_header", "line_diff", "no_newline" }

NoNewlinePrev == { "chunk_header", "line_diff" }

(* The state tag parse_line returns for the no-newline marker (line 236). *)
NoNewlineMode == "NO_NEWLINE"

(* Defaults that copy the side's start into an absent count *)
ChunkHeaderCaptures_count_from_start(line) ==
    LET c0 == captures_to_map("CHUNK_HEADER", line)
        c1 == IF ~ContainsKey(c0, "from_line_count")
              THEN Insert(c0, "from_line_count", c0["from_line_start"]) ELSE c0
        c2 == IF ~ContainsKey(c1, "to_line_count")
              THEN Insert(c1, "to_line_count", c1["to_line_start"]) ELSE c1
    IN  c2

(* Lines 196-214: the defaults of a chunk header's captures. *)
ChunkHeaderCaptures(line) ==
    LET c0 == captures_to_map("CHUNK_HEADER", line)
        c1 == IF ~ContainsKey(c0, "from_line_count")
              THEN Insert(c0, "from_line_count", "1") ELSE c0
        c2 == IF ~ContainsKey(c1, "to_line_count")
              THEN Insert(c1, "to_line_count", "1") ELSE c1
        c3 == IF ~ContainsKey(c2, "to_line_start")
              THEN Insert(c2, "to_line_start", c2["from_line_start"]) ELSE c2
    IN  c3

parse_line(line, prev_state) ==
    IF prev_state \in FileDiffHeaderPrev /\ is_match("FILE_DIFF_HEADER", line)
    THEN Ok("file_diff_header", captures_to_map("FILE_DIFF_HEADER", line))
    ELSE IF prev_state \in FileDiffHeaderPrev /\ prev_state = "start_of_file"
    THEN Expected("expected file diff header")
    ELSE IF prev_state = "file_diff_header" /\ is_match("OLD_MODE_HEADER", line)
    THEN Ok("old_mode_header", captures_to_map("OLD_MODE_HEADER", line))
    ELSE IF prev_state = "old_mode_header"
    THEN IF is_match("NEW_MODE_HEADER", line)
         THEN Ok("new_mode_header", captures_to_map("NEW_MODE_HEADER", line))
         ELSE Expected("expected new_mode_header")
    ELSE IF prev_state = "file_diff_header" /\ is_match("NEW_FILE_MODE_HEADER", line)
    THEN Ok("new_file_mode_header", captures_to_map("NEW_FILE_MODE_HEADER", line))
    ELSE IF prev_state = "file_diff_header" /\ is_match("DELETED_FILE_MODE_HEADER", line)
    THEN Ok("deleted_file_mode_header", captures_to_map("DELETED_FILE_MODE_HEADER", line))
    ELSE IF prev_state \in IndexDiffHeaderPrev
    THEN IF is_match("RENAME_HEADER", line)
         THEN Ok("rename_header", captures_to_map("RENAME_HEADER", line))
         ELSE IF is_match("INDEX_DIFF_HEADER", line)
         THEN Ok("index_diff_header", captures_to_map("INDEX_DIFF_HEADER", line))
         ELSE Expected("expected index_diff_header")
    ELSE IF prev_state = "rename_header" /\ is_match("RENAME_A_FILE", line)
    THEN Ok("rename_a_file", captures_to_map("RENAME_A_FILE", line))
    ELSE IF prev_state = "rename_a_file" /\ is_match("RENAME_B_FILE", line)
    THEN Ok("rename_b_file", captures_to_map("RENAME_B_FILE", line))
    ELSE IF prev_state = "index_diff_header" /\ is_match("BINARY_DIFF", line)
    THEN Ok("binary_diff", captures_to_map("BINARY_DIFF", line))
    ELSE IF prev_state = "index_diff_header"
    THEN IF is_match("A_FILE_CHANGE_HEADER", line)
         THEN Ok("a_file_change_header", captures_to_map("A_FILE_CHANGE_HEADER", line))
         ELSE Expected("expected a_file_change_header")
    ELSE IF prev_state = "a_file_change_header"
    THEN IF is_match("B_FILE_CHANGE_HEADER", line)
         THEN Ok("b_file_change_header", captures_to_map("B_FILE_CHANGE_HEADER", line))
         ELSE Expected("expected b_file_change_header")
    ELSE IF prev_state \in ChunkHeaderPrev /\ is_match("CHUNK_HEADER", line)
    THEN Ok("chunk_header", ChunkHeaderCaptures(line))
    ELSE IF prev_state \in ChunkHeaderPrev /\ prev_state = "b_file_change_header"
    THEN Expected("expected chunk_header")
    ELSE IF prev_state \in LineDiffPrev /\ is_match("LINE_DIFF", line)
    THEN Ok("line_diff", captures_to_map("LINE_DIFF", line))
    ELSE IF prev_state \in NoNewlinePrev
    THEN IF is_match("NO_NEWLINE", line)
         THEN Ok(NoNewlineMode, captures_to_map("NO_NEWLINE", line))
         ELSE Expected("expected line_diff or no_newline")
    ELSE Expected("can't parse line with prev_state")

----------------------------------------------------------------------------
(* line_parser.rs: parse_lines *)

(* An index that is not made 1-based *)
LineParseError_zero_based(line_idx, line) == [idx |-> line_idx, line |-> line]

(* Line 269: the error of parse_lines; parse_line's own error is dropped. *)
LineParseError(line_idx, line) == [idx |-> line_idx + 1, line |-> line]

(* Line 266: the event pushed for a classified line. *)
ParsedEvent(n_state, parsed, line) == <<n_state, parsed, line>>

(* A loop that never advances its state *)
NextState_stuck(prev_state, n_state) == prev_state

(* Line 265: the state the next line is classified from. *)
NextState(prev_state, n_state) == n_state

OkResult(v) == [ok |-> TRUE, value |-> v]
ErrResult(e) == [ok |-> FALSE, err |-> e]

(* A slip that hands back the events classified so far instead of the error *)
OnParseErr_partial(prs, line_idx, line) == OkResult(prs)

(* Lines 268-270: what parse_lines returns when parse_line fails; prs is `parses` *)
OnParseErr(prs, line_idx, line) == ErrResult(LineParseError(line_idx, line))

----------------------------------------------------------------------------
(* aggregator.rs: the data model *)

ZeroMode == "0000000"

FileDiffPoint(file) ==
    [file |-> file, mode |-> None, blob |-> None, end_newline |-> TRUE]

NewFileDiff(from_file, to_file) ==
    [from |-> FileDiffPoint(from_file), to |-> FileDiffPoint(to_file),
     is_binary |-> FALSE, chunks |-> <<>>]

FileMeta == [no_newline_count |-> 0]

(* DiffAction::from_str, lines 19-26 *)
DiffActionFromStr(s) ==
    CASE s = "-" -> Some("Delete")
      [] s = "+" -> Some("Add")
      [] s = " " -> Some("Context")
      [] OTHER -> None

(* str::parse::<usize> on the numerals the alphabet holds *)
ParseUsize(s) ==
    CASE s = "0" -> 0
      [] s = "1" -> 1
      [] s = "2" -> 2
      [] s = "3" -> 3
      [] s = "5" -> 5

----------------------------------------------------------------------------
(* aggregator.rs: the body of the loop, lines 82-303.  s holds the locals *)
(* file_diff, file_meta, chunk_diff, chunk_meta, file_diffs and `panic`.  *)

Panic(s, msg) == [s EXCEPT !.panic = Some(msg)]

WithFileDiff(s, fd) == [s EXCEPT !.file_diff = Some(fd)]

(* A header that leaves the previous file's chunk as the current chunk *)
OnFileDiffHeader_keep_chunk(s, parsed) ==
    LET flushed == IF IsSome(s.file_diff)
                   THEN [s EXCEPT !.file_diffs = Append(@, Unwrap(s.file_diff))]
                   ELSE s
    IN  [flushed EXCEPT
            !.file_meta = Some(FileMeta),
            !.file_diff = Some(NewFileDiff(parsed["from_file"], parsed["to_file"]))]

(* Lines 83-113 *)
OnFileDiffHeader(s, parsed) ==
    LET flushed == IF IsSome(s.file_diff)
                   THEN [s EXCEPT !.file_diffs = Append(@, Unwrap(s.file_diff)),
                                  !.chunk_diff = None,
                                  !.chunk_meta = None]
                   ELSE s
    IN  [flushed EXCEPT
            !.file_meta = Some(FileMeta),
            !.file_diff = Some(NewFileDiff(parsed["from_file"], parsed["to_file"]))]

(* Lines 115-124 *)
OnNewFileMode(s, parsed) ==
    IF IsSome(s.file_diff)
    THEN WithFileDiff(s, [Unwrap(s.file_diff) EXCEPT !.from.mode = Some(ZeroMode),
                                                     !.to.mode = Some(parsed["mode"])])
    ELSE Panic(s, "unreachable")

(* Lines 126-134 *)
OnOldMode(s, parsed) ==
    IF IsSome(s.file_diff)
    THEN WithFileDiff(s, [Unwrap(s.file_diff) EXCEPT !.from.mode = Some(parsed["mode"])])
    ELSE Panic(s, "unreachable")

(* Lines 136-144 *)
OnNewMode(s, parsed) ==
    IF IsSome(s.file_diff)
    THEN WithFileDiff(s, [Unwrap(s.file_diff) EXCEPT !.to.mode = Some(parsed["mode"])])
    ELSE Panic(s, "unreachable")

(* Lines 146-155 *)
OnDeletedFileMode(s, parsed) ==
    IF IsSome(s.file_diff)
    THEN WithFileDiff(s, [Unwrap(s.file_diff) EXCEPT !.from.mode = Some(parsed["mode"]),
                                                     !.to.mode = Some(ZeroMode)])
    ELSE Panic(s, "unreachable")

(* The test without its exemption of an absent path *)
PathMismatch_no_sentinel(file, f) == Some(file) # f

(* Line 167: the test that makes a file change header fatal *)
PathMismatch(file, f) == Some(file) # f /\ f # None

(* Lines 157-174 *)
OnFileChangeHeader(s, st, parsed) ==
    IF IsSome(s.file_diff)
    THEN LET fd == Unwrap(s.file_diff)
             file == IF st = "a_file_change_header" THEN fd.from.file ELSE fd.to.file
             f == Get(parsed, "file")
         IN  IF PathMismatch(file, f) THEN Panic(s, "TODO: Exception text") ELSE s
    ELSE s

(* Lines 176-181 *)
OnBinaryDiff(s, parsed) ==
    IF IsSome(s.file_diff)
    THEN WithFileDiff(s, [Unwrap(s.file_diff) EXCEPT !.is_binary = TRUE])
    ELSE s

(* An index header whose mode fills only the endpoint modes still unset *)
OnIndexDiffHeader_keep_mode(s, parsed) ==
    IF IsSome(s.file_diff)
    THEN LET fd1 == [Unwrap(s.file_diff) EXCEPT !.from.blob = Some(parsed["from_blob"]),
                                                !.to.blob = Some(parsed["to_blob"])]
             mode == Get(parsed, "mode")
             fd2 == IF mode # None
                    THEN [fd1 EXCEPT !.from.mode = IF @ = None THEN mode ELSE @,
                                     !.to.mode = IF @ = None THEN mode ELSE @]
                    ELSE fd1
         IN  WithFileDiff(s, fd2)
    ELSE Panic(s, "unreachable")

(* Lines 183-203 *)
OnIndexDiffHeader(s, parsed) ==
    IF IsSome(s.file_diff)
    THEN LET fd1 == [Unwrap(s.file_diff) EXCEPT !.from.blob = Some(parsed["from_blob"]),
                                                !.to.blob = Some(parsed["to_blob"])]
             mode == Get(parsed, "mode")
             fd2 == IF mode # None
                    THEN [fd1 EXCEPT !.from.mode = Some(Unwrap(mode)),
                                     !.to.mode = Some(Unwrap(mode))]
                    ELSE fd1
         IN  WithFileDiff(s, fd2)
    ELSE Panic(s, "unreachable")

(* Lines 227-229: the chunk kept in chunk_diff is a clone of the one pushed *)
(* to file_diff.chunks; cd is the new ChunkDiff.                           *)
OpenChunk(s, cd) ==
    [s EXCEPT !.chunk_diff = Some(cd),
              !.file_diff = Some([Unwrap(s.file_diff) EXCEPT !.chunks = Append(@, cd)])]

(* Lines 205-235 *)
OnChunkHeader(s, parsed) ==
    LET from_line_start == parsed["from_line_start"]
        to_line_start == parsed["to_line_start"]
        s1 == [s EXCEPT !.chunk_meta =
                  Some([from_line_number |-> ParseUsize(from_line_start),
                        to_line_number |-> ParseUsize(to_line_start)])]
        diff == [from |-> [line_start |-> ParseUsize(from_line_start),
                           line_count |-> ParseUsize(parsed["from_line_count"])],
                 to |-> [line_start |-> ParseUsize(to_line_start),
                         line_count |-> ParseUsize(parsed["to_line_count"])],
                 lines |-> <<>>]
    IN  IF IsSome(s.file_diff)
        THEN OpenChunk(s1, diff)
        ELSE Panic(s1, "unreachable")

(* Lines 251-252: where a line entry is stored *)
PushLine(s, chunk_diff_line) ==
    [s EXCEPT !.chunk_diff = Some([Unwrap(s.chunk_diff) EXCEPT
                                      !.lines = Append(@, chunk_diff_line)])]

(* Counters that an Add advances on the from side as well *)
Advance_add_both(cm, action) ==
    [from_line_number |-> cm.from_line_number + 1,
     to_line_number |-> IF action \in {" ", "+"}
                        THEN cm.to_line_number + 1 ELSE cm.to_line_number]

(* Lines 260-270: the counters after a line with this action *)
Advance(cm, action) ==
    [from_line_number |-> IF action \in {" ", "-"}
                          THEN cm.from_line_number + 1 ELSE cm.from_line_number,
     to_line_number |-> IF action \in {" ", "+"}
                        THEN cm.to_line_number + 1 ELSE cm.to_line_number]

(* A line diff that leaves the flags as the marker set them *)
ReconcileNewline_never(s) == s

(* Lines 272-279 *)
ReconcileNewline(s) ==
    IF IsSome(s.file_meta) /\ Unwrap(s.file_meta).no_newline_count > 0
       /\ IsSome(s.file_diff)
    THEN WithFileDiff(s, [Unwrap(s.file_diff) EXCEPT !.to.end_newline = TRUE,
                                                     !.from.end_newline = TRUE])
    ELSE s

(* Lines 237-282 *)
OnLineDiff(s, parsed) ==
    IF IsSome(s.chunk_meta)
    THEN LET cm == Unwrap(s.chunk_meta)
             action == DiffActionFromStr(parsed["action"])
         IN  IF action = None
             THEN Panic(s, "unknown diff action")
             ELSE IF IsSome(s.chunk_diff)
             THEN LET chunk_diff_line ==
                          [from_line_number |-> cm.from_line_number,
                           to_line_number |-> cm.to_line_number,
                           line |-> parsed["line"],
                           action |-> Unwrap(action)]
                      s1 == PushLine(s, chunk_diff_line)
                      s2 == [s1 EXCEPT !.chunk_meta = Some(Advance(cm, parsed["action"]))]
                  IN  ReconcileNewline(s2)
             ELSE Panic(s, "unreachable")
    ELSE Panic(s, "unreachable")

(* A bound that lets a third marker through *)
TooManyNoNewline_three(count) == count > 3

(* Line 287 *)
TooManyNoNewline(count) == count > 2

(* A marker that clears the flag of both endpoints *)
OnNoNewline_clear_both(s, parsed) ==
    IF IsSome(s.file_meta)
    THEN LET count == Unwrap(s.file_meta).no_newline_count + 1
             s1 == [s EXCEPT !.file_meta = Some([no_newline_count |-> count])]
         IN  IF TooManyNoNewline(count)
             THEN Panic(s1, "TODO: Exception text")
             ELSE IF IsSome(s1.file_diff)
             THEN WithFileDiff(s1, [Unwrap(s1.file_diff) EXCEPT !.to.end_newline = FALSE,
                                                                 !.from.end_newline = FALSE])
             ELSE Panic(s1, "unreachable")
    ELSE Panic(s, "unreachable")

(* Lines 284-299 *)
OnNoNewline(s, parsed) ==
    IF IsSome(s.file_meta)
    THEN LET count == Unwrap(s.file_meta).no_newline_count + 1
             s1 == [s EXCEPT !.file_meta = Some([no_newline_count |-> count])]
         IN  IF TooManyNoNewline(count)
             THEN Panic(s1, "TODO: Exception text")
             ELSE IF IsSome(s1.file_diff)
             THEN WithFileDiff(s1, [Unwrap(s1.file_diff) EXCEPT !.to.end_newline = FALSE])
             ELSE Panic(s1, "unreachable")
    ELSE Panic(s, "unreachable")

(* A fall-through that goes on to the next event *)
Unhandled_skip(s, st) == s

(* Lines 301-302: an event no branch of the loop has taken *)
Unhandled(s, st) == Panic(s, "unexpected line")

(* Lines 82-303: one iteration of the loop on the event (st, parsed, _) *)
Body(s, st, parsed) ==
    CASE st = "file_diff_header" -> OnFileDiffHeader(s, parsed)
      [] st = "new_file_mode_header" -> OnNewFileMode(s, parsed)
      [] st = "old_mode_header" -> OnOldMode(s, parsed)
      [] st = "new_mode_header" -> OnNewMode(s, parsed)
      [] st = "deleted_file_mode_header" -> OnDeletedFileMode(s, parsed)
      [] st \in {"a_file_change_header", "b_file_change_header"} ->
            OnFileChangeHeader(s, st, parsed)
      [] st = "binary_diff" -> OnBinaryDiff(s, parsed)
      [] st = "index_diff_header" -> OnIndexDiffHeader(s, parsed)
      [] st = "chunk_header" -> OnChunkHeader(s, parsed)
      [] st = "line_diff" -> OnLineDiff(s, parsed)
      [] st = "no_newline" -> OnNoNewline(s, parsed)
      [] OTHER -> Unhandled(s, st)

(* An end of loop that forgets the document in progress *)
Flush_drop_last(fds, fd) == fds

(* Lines 305-309: the list returned at the end of the loop *)
Flush(fds, fd) == IF IsSome(fd) THEN Append(fds, Unwrap(fd)) ELSE fds

----------------------------------------------------------------------------
(* The run *)

Locals ==
    [file_diff |-> file_diff, file_meta |-> file_meta, chunk_diff |-> chunk_diff,
     chunk_meta |-> chunk_meta, file_diffs |-> file_diffs, panic |-> None]

Init ==
    /\ pc = "parse_lines"
    /\ input = <<>>
    /\ state = "start_of_file"
    /\ parses = <<>>
    /\ result = None
    /\ lines = <<>>
    /\ n = 0
    /\ ev = None
    /\ file_diff = None
    /\ file_meta = None
    /\ chunk_diff = None
    /\ chunk_meta = None
    /\ file_diffs = <<>>
    /\ panicked = None
    /\ hdrs = <<>>
    /\ nn = <<>>
    /\ lastnn = <<>>

(* parse_lines, lines 259-272: the iterator yields one more line *)
ParseLine ==
    /\ pc = "parse_lines"
    /\ Len(input) < MaxLines
    /\ \E line \in Lines :
          LET line_idx == Len(input)
              prev_state == state
              r == parse_line(line, prev_state)
          IN  /\ input' = Append(input, line)
              /\ IF r.ok
                 THEN /\ state' = NextState(prev_state, r.state)
                      /\ parses' = Append(parses, ParsedEvent(r.state, r.parsed, line))
                      /\ UNCHANGED <<result, pc>>
                 ELSE /\ result' = Some(OnParseErr(parses, line_idx, line))
                      /\ pc' = "parsed"
                      /\ UNCHANGED <<state, parses>>
    /\ UNCHANGED <<lines, aggVars, panicked>>

(* parse_lines, line 273: the iterator is exhausted *)
ParseEnd ==
    /\ pc = "parse_lines"
    /\ result' = Some(OkResult(parses))
    /\ pc' = "parsed"
    /\ UNCHANGED <<input, state, parses, lines, aggVars, panicked>>

(* main, lines 20-23: unwrap the tokenizer's result and call the aggregator *)
MainUnwrap ==
    /\ pc = "parsed"
    /\ IF Unwrap(result).ok
       THEN /\ lines' = Unwrap(result).value
            /\ pc' = "aggregator"
            /\ UNCHANGED panicked
       ELSE /\ pc' = "panic"
            /\ panicked' = Some("called Result::unwrap() on an Err value")
            /\ UNCHANGED lines
    /\ UNCHANGED <<tokVars, aggVars>>

(* One iteration of the aggregator's loop on event e *)
TakeEvent(e) ==
    LET r == Body(Locals, e[1], e[2])
    IN  /\ ev' = Some(e)
        /\ n' = n + 1
        /\ file_diff' = r.file_diff
        /\ file_meta' = r.file_meta
        /\ chunk_diff' = r.chunk_diff
        /\ chunk_meta' = r.chunk_meta
        /\ file_diffs' = r.file_diffs
        /\ panicked' = r.panic
        /\ pc' = IF IsSome(r.panic) THEN "panic" ELSE pc
        /\ hdrs' = IF e[1] = "file_diff_header"
                   THEN Append(hdrs, <<e[2]["from_file"], e[2]["to_file"]>>)
                   ELSE hdrs
        /\ nn' = IF e[1] = "file_diff_header" THEN Append(nn, 0)
                 ELSE IF e[1] = "no_newline" /\ nn # <<>>
                 THEN [nn EXCEPT ![Len(nn)] = @ + 1]
                 ELSE nn
        /\ lastnn' = IF e[1] = "file_diff_header" THEN Append(lastnn, FALSE)
                     ELSE IF e[1] \in {"line_diff", "no_newline"} /\ lastnn # <<>>
                     THEN [lastnn EXCEPT ![Len(lastnn)] = (e[1] = "no_newline")]
                     ELSE lastnn

(* aggregator, line 82: the loop takes the next event of main's list *)
AggStep ==
    /\ pc = "aggregator"
    /\ n < Len(lines)
    /\ TakeEvent(lines[n + 1])
    /\ UNCHANGED <<tokVars, lines>>

(* aggregator, lines 305-309: the list is exhausted *)
AggReturn ==
    /\ pc = "aggregator"
    /\ n = Len(lines)
    /\ file_diffs' = Flush(file_diffs, file_diff)
    /\ pc' = "returned"
    /\ UNCHANGED <<tokVars, lines, n, ev, file_diff, file_meta, chunk_diff,
                   chunk_meta, panicked, hdrs, nn, lastnn>>

Next == ParseLine \/ ParseEnd \/ MainUnwrap \/ AggStep \/ AggReturn

Spec == Init /\ [][Next]_vars

----------------------------------------------------------------------------
(* The aggregator called on its own, on any list of events *)

Event(st, re, line) == <<st, Captures(re, line), line>>

AggEvents ==
    { Event("file_diff_header", "FILE_DIFF_HEADER", "diff --git a/f b/f"),
      Event("file_diff_header", "FILE_DIFF_HEADER", "diff --git a/g b/h"),
      Event("old_mode_header", "OLD_MODE_HEADER", "old mode 100644"),
      Event("new_mode_header", "NEW_MODE_HEADER", "new mode 100755"),
      Event("new_file_mode_header", "NEW_FILE_MODE_HEADER", "new file mode 100644"),
      Event("deleted_file_mode_header", "DELETED_FILE_MODE_HEADER",
            "deleted file mode 100644"),
      Event("rename_header", "RENAME_HEADER", "similarity index 90"),
      Event("index_diff_header", "INDEX_DIFF_HEADER", "index e69de29..4b825dc 100644"),
      Event("index_diff_header", "INDEX_DIFF_HEADER", "index e69de29..4b825dc"),
      Event("binary_diff", "BINARY_DIFF", "Binary files a/f and b/f differ"),
      Event("a_file_change_header", "A_FILE_CHANGE_HEADER", "--- a/f"),
      Event("a_file_change_header", "A_FILE_CHANGE_HEADER", "--- /dev/null"),
      Event("b_file_change_header", "B_FILE_CHANGE_HEADER", "+++ b/f"),
      Event("b_file_change_header", "B_FILE_CHANGE_HEADER", "+++ /dev/null"),
      <<"chunk_header", ChunkHeaderCaptures("@@ -1,2 +1,3 @@"), "@@ -1,2 +1,3 @@">>,
      <<"chunk_header", ChunkHeaderCaptures("@@ -3 +5 @@ fn"), "@@ -3 +5 @@ fn">>,
      Event("line_diff", "LINE_DIFF", " line1"),
      Event("line_diff", "LINE_DIFF", "-line2"),
      Event("line_diff", "LINE_DIFF", "+line3"),
      Event("no_newline", "NO_NEWLINE", "\\ No newline at end of file"),
      Event(NoNewlineMode, "NO_NEWLINE", "\\ No newline at end of file") }

InitAgg ==
    /\ pc = "aggregator"
    /\ input = <<>>
    /\ state = "start_of_file"
    /\ parses = <<>>
    /\ result = None
    /\ lines = <<>>
    /\ n = 0
    /\ ev = None
    /\ file_diff = None
    /\ file_meta = None
    /\ chunk_diff = None
    /\ chunk_meta = None
    /\ file_diffs = <<>>
    /\ panicked = None
    /\ hdrs = <<>>
    /\ nn = <<>>
    /\ lastnn = <<>>

(* aggregator, line 82: the caller's list holds one more event *)
AggFeed ==
    /\ pc = "aggregator"
    /\ n < MaxEvents
    /\ \E e \in AggEvents : TakeEvent(e)
    /\ UNCHANGED <<tokVars, lines>>

(* aggregator, lines 305-309: the caller's list ends here *)
AggEnd ==
    /\ pc = "aggregator"
    /\ file_diffs' = Flush(file_diffs, file_diff)
    /\ pc' = "returned"
    /\ UNCHANGED <<tokVars, lines, n, ev, file_diff, file_meta, chunk_diff,
                   chunk_meta, panicked, hdrs, nn, lastnn>>

NextAgg == AggFeed \/ AggEnd

SpecAgg == InitAgg /\ [][NextAgg]_vars

----------------------------------------------------------------------------
(* Vocabulary of the properties *)

Front(q) == SubSeq(q, 1, Len(q) - 1)
Last(q) == q[Len(q)]

Finished == pc \in {"returned", "panic"}

(* The tag the tokenizer grammar reaches on ls, when every line of ls is *)
(* classified; "unclassified" otherwise.                                  *)
RECURSIVE TagAfter(_)
TagAfter(ls) ==
    IF ls = <<>> THEN "start_of_file"
    ELSE LET p == TagAfter(Front(ls))
         IN  IF p = "unclassified" THEN "unclassified"
             ELSE LET r == parse_line(Last(ls), p)
                  IN  IF r.ok THEN r.state ELSE "unclassified"

Classified(ls) == TagAfter(ls) # "unclassified"

(* The chunks of a document list, in order *)
RECURSIVE AllChunks(_)
AllChunks(docs) ==
    IF docs = <<>> THEN <<>> ELSE AllChunks(Front(docs)) \o Last(docs).chunks

(* <<action, content>> of every line entry of chunk c *)
EntriesOf(c) == [k \in 1..Len(c.lines) |-> <<c.lines[k].action, c.lines[k].line>>]

StoredEntries(docs) ==
    LET cs == AllChunks(docs) IN [i \in 1..Len(cs) |-> EntriesOf(cs[i])]

(* For each chunk_header event of evs, in order, <<action, content>> of the *)
(* line_diff events up to the next chunk_header or file_diff_header event.   *)
RECURSIVE EventEntries(_, _, _, _)
EventEntries(evs, i, acc, open) ==
    IF i > Len(evs) THEN acc
    ELSE LET e == evs[i]
         IN  IF e[1] = "chunk_header"
             THEN EventEntries(evs, i + 1, Append(acc, <<>>), TRUE)
             ELSE IF e[1] = "file_diff_header"
             THEN EventEntries(evs, i + 1, acc, FALSE)
             ELSE IF e[1] = "line_diff" /\ open
             THEN EventEntries(evs, i + 1,
                      [acc EXCEPT ![Len(acc)] =
                          Append(@, <<Unwrap(DiffActionFromStr(e[2]["action"])),
                                      e[2]["line"]>>)],
                      open)
             ELSE EventEntries(evs, i + 1, acc, open)

(* Every chunk the aggregator holds: in the documents pushed, in the *)
(* document in progress and in chunk_diff.                            *)
HeldChunks ==
    LET pushed == AllChunks(file_diffs)
        current == IF IsSome(file_diff) /\ pc # "returned"
                   THEN Unwrap(file_diff).chunks ELSE <<>>
        working == IF IsSome(chunk_diff) THEN <<Unwrap(chunk_diff)>> ELSE <<>>
    IN  pushed \o current \o working

(* The number of entries before position k of c whose action is in acts *)
CountBefore(c, k, acts) ==
    Cardinality({j \in 1..(k - 1) : c.lines[j].action \in acts})

FollowsIncrementRule(c) ==
    \A k \in 1..Len(c.lines) :
        /\ c.lines[k].from_line_number =
              c.from.line_start + CountBefore(c, k, {"Context", "Delete"})
        /\ c.lines[k].to_line_number =
              c.to.line_start + CountBefore(c, k, {"Context", "Add"})

TakenState == IF IsSome(ev) THEN Unwrap(ev)[1] ELSE "none"

----------------------------------------------------------------------------
(* The properties *)

(* C1: when the aggregator returns, the chunks of the returned documents  *)
(* hold, chunk by chunk and in order, one entry per line_diff event that   *)
(* followed the chunk's chunk_header, with that event's action and content. *)
C1_ChunkHoldsItsLines ==
    pc = "returned" => StoredEntries(file_diffs) = EventEntries(lines, 1, <<>>, FALSE)

(* C2: in every chunk the aggregator holds, the numbers stored on the k-th *)
(* line are the chunk's declared starts advanced once per earlier Context   *)
(* or Delete line (from) and once per earlier Context or Add line (to); the *)
(* running counters are the numbers the next line of the working chunk will *)
(* record, so they restart at the starts of every chunk_header.             *)
C2_LineNumbersReplay ==
    /\ \A i \in 1..Len(HeldChunks) : FollowsIncrementRule(HeldChunks[i])
    /\ (pc = "aggregator" /\ IsSome(chunk_diff)) =>
          LET c == Unwrap(chunk_diff)
              k == Len(c.lines) + 1
          IN  /\ IsSome(chunk_meta)
              /\ Unwrap(chunk_meta).from_line_number =
                    c.from.line_start + CountBefore(c, k, {"Context", "Delete"})
              /\ Unwrap(chunk_meta).to_line_number =
                    c.to.line_start + CountBefore(c, k, {"Context", "Add"})

C2_Witness ==
    /\ IsSome(chunk_diff)
    /\ LET c == Unwrap(chunk_diff)
       IN  /\ Len(c.lines) = 3
           /\ c.from.line_start = 3
           /\ c.to.line_start = 5
           /\ c.lines[1].action = "Add"
           /\ c.lines[2].action = "Context"
           /\ c.lines[3].from_line_number = 4
           /\ c.lines[3].to_line_number = 7

(* C3: once a line of the input has failed tokenization, parse_lines has    *)
(* returned an error and nothing else, the aggregator has not been entered, *)
(* and no document exists; the aggregator only ever runs on the events of   *)
(* the whole input.                                                         *)
C3_Atomicity ==
    /\ ~Classified(input) =>
          /\ IsSome(result) /\ ~Unwrap(result).ok
          /\ pc \in {"parsed", "panic"}
          /\ lines = <<>> /\ n = 0 /\ file_diffs = <<>> /\ file_diff = None
    /\ pc \in {"aggregator", "returned"} =>
          /\ Classified(input)
          /\ lines = parses
          /\ Len(lines) = Len(input)

C3_Witness ==
    /\ pc = "panic"
    /\ ~Classified(input)
    /\ Len(parses) >= 5
    /\ file_diffs = <<>>

(* C4: the error of parse_lines holds the 1-based index and the text of    *)
(* the first line that no production classifies from the tag reached by the *)
(* lines before it; those lines were all classified, and the iterator was   *)
(* not asked for a line after it.                                           *)
C4_FirstFailingLine ==
    (IsSome(result) /\ ~Unwrap(result).ok) =>
        LET e == Unwrap(result).err
        IN  /\ e.idx = Len(input)
            /\ e.idx >= 1
            /\ e.line = input[e.idx]
            /\ Classified(Front(input))
            /\ ~parse_line(input[e.idx], TagAfter(Front(input))).ok
            /\ Len(parses) = e.idx - 1

C4_Witness ==
    /\ IsSome(result) /\ ~Unwrap(result).ok
    /\ Unwrap(result).err.idx = 3
    /\ Unwrap(result).err.line = "garbage"

(* C5: a finished run on an input that tokenizes, names one path on every *)
(* header, holds no rename and ends with a line diff followed by the        *)
(* no-newline marker has returned, and the marker's document has            *)
(* to.end_newline = FALSE.                                                  *)
C5_NoNewlineAtEnd ==
    (/\ Finished
     /\ Classified(input)
     /\ \A i \in 1..Len(input) :
           input[i] \notin {"diff --git a/g b/h", "similarity index 90",
                            "rename from g", "rename to h"}
     /\ Len(input) >= 2
     /\ Last(input) = "\\ No newline at end of file"
     /\ TagAfter(Front(input)) = "line_diff") =>
        /\ pc = "returned"
        /\ file_diffs # <<>>
        /\ ~Last(file_diffs).to.end_newline

(* C6: the aggregator returns only when no file held a third no_newline    *)
(* event; a no_newline event of a file makes it fail only as the third (or  *)
(* later) of its file, whatever earlier files held; the counter is the      *)
(* number of no_newline events since the last file_diff_header.             *)
C6_NoNewlineBound ==
    /\ pc = "returned" => \A i \in 1..Len(nn) : nn[i] <= 2
    /\ (pc = "panic" /\ TakenState = "no_newline" /\ nn # <<>>) => Last(nn) > 2
    /\ (nn # <<>> /\ Last(nn) > 2) => pc = "panic"
    /\ (pc = "aggregator" /\ nn # <<>>) =>
          /\ IsSome(file_meta)
          /\ Unwrap(file_meta).no_newline_count = Last(nn)

C6_Witness ==
    /\ pc = "returned"
    /\ Len(nn) = 2
    /\ nn[1] = 2
    /\ nn[2] = 1

(* C7: the aggregator never ends in a process abort. *)
C7_NeverAborts == pc # "panic"

(* C8: a step that takes an a_file_change_header or b_file_change_header   *)
(* event fails exactly when there is a current document, the event holds a  *)
(* path and the path differs from the document's from path (a) or to path   *)
(* (b); the step changes no document, chunk or counter.                     *)
C8_FileChangeHeader ==
    [][ (n' = n + 1 /\ Unwrap(ev')[1] \in {"a_file_change_header", "b_file_change_header"})
        => LET e == Unwrap(ev')
               f == Get(e[2], "file")
               differs ==
                   /\ IsSome(file_diff)
                   /\ IsSome(f)
                   /\ Unwrap(f) # (IF e[1] = "a_file_change_header"
                                   THEN Unwrap(file_diff).from.file
                                   ELSE Unwrap(file_diff).to.file)
           IN  /\ (pc' = "panic") <=> differs
               /\ (pc' # "panic") => pc' = pc
               /\ UNCHANGED <<file_diff, file_meta, chunk_diff, chunk_meta, file_diffs>>
      ]_vars

C8_Witness ==
    /\ pc = "returned"
    /\ TakenState = "b_file_change_header"
    /\ Get(Unwrap(ev)[2], "file") = None
    /\ Len(file_diffs) = 1

(* C9: the returned list has one document per file_diff_header event, in   *)
(* the order of the events and with their paths; while the loop runs, every *)
(* header but the last has its document in the list and the last header's   *)
(* document is the one in progress.                                         *)
C9_OneDocumentPerHeader ==
    /\ pc = "returned" =>
          /\ Len(file_diffs) = Len(hdrs)
          /\ \A i \in 1..Len(hdrs) :
                /\ file_diffs[i].from.file = hdrs[i][1]
                /\ file_diffs[i].to.file = hdrs[i][2]
    /\ pc = "aggregator" =>
          /\ IsSome(file_diff) <=> hdrs # <<>>
          /\ hdrs = <<>> => file_diffs = <<>>
          /\ hdrs # <<>> =>
                /\ Len(file_diffs) = Len(hdrs) - 1
                /\ Unwrap(file_diff).from.file = Last(hdrs)[1]
                /\ Unwrap(file_diff).to.file = Last(hdrs)[2]
                /\ \A i \in 1..Len(file_diffs) :
                      /\ file_diffs[i].from.file = hdrs[i][1]
                      /\ file_diffs[i].to.file = hdrs[i][2]

C9_Witness ==
    /\ pc = "returned"
    /\ Len(file_diffs) = 3
    /\ file_diffs[1].to.file = "f"
    /\ file_diffs[2].to.file = "h"
    /\ file_diffs[3].to.file = "f"

(* C10: when parse_lines succeeds it returns one event per input line, in   *)
(* input order; the i-th event holds the i-th line as its raw line and the  *)
(* tag and captures parse_line gives that line from the tag of event i-1    *)
(* (start_of_file for the first).                                           *)
C10_OneEventPerLine ==
    (IsSome(result) /\ Unwrap(result).ok) =>
        LET v == Unwrap(result).value
        IN  /\ Len(v) = Len(input)
            /\ \A i \in 1..Len(v) :
                  LET prev == IF i = 1 THEN "start_of_file" ELSE v[i - 1][1]
                      r == parse_line(input[i], prev)
                  IN  /\ v[i][3] = input[i]
                      /\ r.ok
                      /\ v[i][1] = r.state
                      /\ v[i][2] = r.parsed

C10_Witness ==
    /\ IsSome(result) /\ Unwrap(result).ok
    /\ Len(Unwrap(result).value) = 6
    /\ Unwrap(result).value[6][1] = "line_diff"
    /\ Unwrap(result).value[6][3] = "+line3"

(* The grammar table of the tokenizer's contract: for each production the *)
(* productions that may come right before it.  Tags are the tokenizer's;    *)
(* the no-newline production is the one tagged NoNewlineMode.               *)
AllowedPrevious(tag) ==
    CASE tag = "file_diff_header" ->
            { "start_of_file", "new_mode_header", "line_diff", NoNewlineMode,
              "index_diff_header", "binary_diff", "rename_b_file" }
      [] tag = "old_mode_header" -> { "file_diff_header" }
      [] tag = "new_mode_header" -> { "old_mode_header" }
      [] tag = "new_file_mode_header" -> { "file_diff_header" }
      [] tag = "deleted_file_mode_header" -> { "file_diff_header" }
      [] tag = "rename_header" ->
            { "rename_b_file", "file_diff_header", "new_mode_header",
              "new_file_mode_header", "deleted_file_mode_header" }
      [] tag = "rename_a_file" -> { "rename_header" }
      [] tag = "rename_b_file" -> { "rename_a_file" }
      [] tag = "index_diff_header" ->
            { "rename_b_file", "file_diff_header", "new_mode_header",
              "new_file_mode_header", "deleted_file_mode_header" }
      [] tag = "binary_diff" -> { "index_diff_header" }
      [] tag = "a_file_change_header" -> { "index_diff_header" }
      [] tag = "b_file_change_header" -> { "a_file_change_header" }
      [] tag = "chunk_header" -> { "b_file_change_header", "line_diff", NoNewlineMode }
      [] tag = "line_diff" -> { "chunk_header", "line_diff", NoNewlineMode }
      [] tag = NoNewlineMode -> { "chunk_header", "line_diff" }
      [] OTHER -> {}

(* C11: in the events of a successful parse_lines the first event is a     *)
(* file_diff_header and the tag of every event is one the grammar table     *)
(* allows after the tag of the event before it.                             *)
C11_TransitionsAllowed ==
    (IsSome(result) /\ Unwrap(result).ok) =>
        LET v == Unwrap(result).value
        IN  /\ v # <<>> => v[1][1] = "file_diff_header"
            /\ \A i \in 1..Len(v) :
                  (IF i = 1 THEN "start_of_file" ELSE v[i - 1][1])
                      \in AllowedPrevious(v[i][1])

C11_Witness ==
    /\ IsSome(result) /\ Unwrap(result).ok
    /\ LET v == Unwrap(result).value
       IN  /\ Len(v) = 7
           /\ v[2][1] = "old_mode_header"
           /\ v[3][1] = "new_mode_header"
           /\ v[4][1] = "rename_header"
           /\ v[7][1] = "index_diff_header"

(* The counts a chunk header line writes: <<from, to>>, "" where the line *)
(* gives no count on that side.                                            *)
WrittenCounts(raw) ==
    CASE raw = "@@ -1,2 +1,3 @@" -> <<"2", "3">>
      [] raw = "@@ -3 +5 @@ fn" -> <<"", "">>
      [] raw = "@@ -2 +2,3 @@" -> <<"", "3">>

CountField(written) == IF written = "" THEN "1" ELSE written

CountValue(written) ==
    CASE written = "" -> 1
      [] written = "2" -> 2
      [] written = "3" -> 3

(* C12: every chunk_header event holds, on each side, the count its line   *)
(* writes, or "1" where the line writes none; the ChunkDiff the aggregator  *)
(* opens for the event holds the same counts as numbers.                    *)
C12_DefaultCount ==
    /\ \A i \in 1..Len(parses) :
          parses[i][1] = "chunk_header" =>
              /\ parses[i][2]["from_line_count"] = CountField(WrittenCounts(parses[i][3])[1])
              /\ parses[i][2]["to_line_count"] = CountField(WrittenCounts(parses[i][3])[2])
    /\ (pc \in {"aggregator", "returned"} /\ TakenState = "chunk_header") =>
          LET w == WrittenCounts(Unwrap(ev)[3])
              opened == Last(Unwrap(file_diff).chunks)
          IN  /\ opened.from.line_count = CountValue(w[1])
              /\ opened.to.line_count = CountValue(w[2])
              /\ chunk_diff = Some(opened)

C12_Witness ==
    /\ pc = "returned"
    /\ TakenState = "chunk_header"
    /\ Unwrap(ev)[3] = "@@ -2 +2,3 @@"
    /\ Unwrap(chunk_diff).from.line_count = 1
    /\ Unwrap(chunk_diff).to.line_count = 3

(* C13: the error of parse_lines holds the 1-based index of the failing   *)
(* line, its text, and the description parse_line gave for the failure.     *)
C13_ErrorCarriesExpected ==
    (IsSome(result) /\ ~Unwrap(result).ok) =>
        LET e == Unwrap(result).err
        IN  /\ e.idx = Len(input)
            /\ e.line = Last(input)
            /\ "expected" \in DOMAIN e
            /\ e["expected"] = parse_line(Last(input), state).expected

(* The tag the grammar gives a line that follows a no-newline event *)
TagAfterNoNewline(line) ==
    CASE line \in {"diff --git a/f b/f", "diff --git a/g b/h"} -> "file_diff_header"
      [] line \in {"@@ -1,2 +1,3 @@", "@@ -3 +5 @@ fn", "@@ -2 +2,3 @@"} -> "chunk_header"
      [] line \in {" line1", "-line2", "+line3"} -> "line_diff"
      [] OTHER -> "none"

(* C15: when the event before the last line taken is the no-newline event  *)
(* and that line is a file diff header, a chunk header or a line diff, the  *)
(* line is classified, as file_diff_header, chunk_header or line_diff.      *)
C15_AfterNoNewline ==
    (/\ Len(input) >= 2
     /\ Len(parses) >= Len(input) - 1
     /\ parses[Len(input) - 1][1] = NoNewlineMode
     /\ TagAfterNoNewline(Last(input)) # "none") =>
        /\ Len(parses) = Len(input)
        /\ Last(parses)[1] = TagAfterNoNewline(Last(input))
        /\ state = TagAfterNoNewline(Last(input))
        /\ result = None \/ Unwrap(result).ok

(* What may follow event i of v: a chunk_header after a b_file_change_header, *)
(* a line_diff or no-newline event after a chunk_header.                   *)
FollowedAsRequired(v, i) ==
    /\ v[i][1] = "b_file_change_header" => v[i + 1][1] = "chunk_header"
    /\ v[i][1] = "chunk_header" => v[i + 1][1] \in {"line_diff", NoNewlineMode}

(* C16 as stated: in the events of a successful parse_lines every          *)
(* b_file_change_header event has a next event, a chunk_header, and every   *)
(* chunk_header event has a next event, a line_diff or no-newline event.    *)
C16_NeverMissing ==
    (IsSome(result) /\ Unwrap(result).ok) =>
        LET v == Unwrap(result).value
        IN  \A i \in 1..Len(v) :
               /\ v[i][1] \in {"b_file_change_header", "chunk_header"} => i < Len(v)
               /\ i < Len(v) => FollowedAsRequired(v, i)

(* C16 amended: in the events parse_lines has classified, every            *)
(* b_file_change_header event that has a next event is followed by a        *)
(* chunk_header and every chunk_header event that has a next event by a     *)
(* line_diff or no-newline event; the result, when Ok, is these events.     *)
C16_NextEventAsRequired ==
    /\ \A i \in 1..(Len(parses) - 1) : FollowedAsRequired(parses, i)
    /\ (IsSome(result) /\ Unwrap(result).ok) => Unwrap(result).value = parses

C16_Witness ==
    /\ IsSome(result) /\ Unwrap(result).ok
    /\ LET v == Unwrap(result).value
       IN  /\ Len(v) = 7
           /\ v[4][1] = "b_file_change_header"
           /\ v[5][1] = "chunk_header"
           /\ v[6][1] = "line_diff"
           /\ v[7][1] = NoNewlineMode

RenameTags == {"rename_header", "rename_a_file", "rename_b_file"}

PureRename ==
    <<"diff --git a/g b/h", "similarity index 90", "rename from g", "rename to h">>

(* C17: an input that starts with a pure rename is classified line by line *)
(* as file_diff_header, rename_header, rename_a_file, rename_b_file; the    *)
(* aggregator takes no rename event but a rename_header, fails on it at the *)
(* unhandled-event branch, and so returns for no event list that holds a    *)
(* rename event.                                                            *)
C17_RenameUnhandled ==
    /\ (Len(input) >= 4 /\ SubSeq(input, 1, 4) = PureRename) =>
          /\ Len(parses) >= 4
          /\ [i \in 1..4 |-> parses[i][1]] =
                <<"file_diff_header", "rename_header", "rename_a_file", "rename_b_file">>
    /\ TakenState \in RenameTags =>
          /\ TakenState = "rename_header"
          /\ pc = "panic"
          /\ panicked = Some("unexpected line")
          /\ \A i \in 1..(n - 1) : lines[i][1] \notin RenameTags
    /\ pc = "returned" => \A i \in 1..Len(lines) : lines[i][1] \notin RenameTags

C17_Witness ==
    /\ pc = "panic"
    /\ input = PureRename
    /\ n = 2
    /\ TakenState = "rename_header"
    /\ file_diffs = <<>>

(* C18: a step that takes an index_diff_header event while a document is *)
(* in progress sets the document's two blobs to the event's hashes; with a  *)
(* mode in the event both endpoint modes become that mode, whatever they    *)
(* were, and without one both are kept; paths, is_binary, chunks, the       *)
(* end_newline flags and every other local are kept.                        *)
C18_IndexHeaderFrame ==
    [][ (n' = n + 1 /\ Unwrap(ev')[1] = "index_diff_header" /\ IsSome(file_diff))
        => LET parsed == Unwrap(ev')[2]
               pre == Unwrap(file_diff)
               post == Unwrap(file_diff')
           IN  /\ pc' = pc
               /\ IsSome(file_diff')
               /\ post.from.blob = Some(parsed["from_blob"])
               /\ post.to.blob = Some(parsed["to_blob"])
               /\ IF "mode" \in DOMAIN parsed
                  THEN /\ post.from.mode = Some(parsed["mode"])
                       /\ post.to.mode = Some(parsed["mode"])
                  ELSE /\ post.from.mode = pre.from.mode
                       /\ post.to.mode = pre.to.mode
               /\ post.from.file = pre.from.file
               /\ post.to.file = pre.to.file
               /\ post.from.end_newline = pre.from.end_newline
               /\ post.to.end_newline = pre.to.end_newline
               /\ post.is_binary = pre.is_binary
               /\ post.chunks = pre.chunks
               /\ UNCHANGED <<file_meta, chunk_diff, chunk_meta, file_diffs>>
      ]_vars

C18_Witness ==
    /\ pc = "aggregator"
    /\ TakenState = "index_diff_header"
    /\ "mode" \notin DOMAIN Unwrap(ev)[2]
    /\ Unwrap(file_diff).from.mode = Some("100644")
    /\ Unwrap(file_diff).to.mode = Some("100755")
    /\ Unwrap(file_diff).to.blob = Some("4b825dc")

(* C19: a step that takes a no_newline event and does not fail sets the   *)
(* document's to.end_newline to FALSE and keeps from.end_newline; a step    *)
(* that takes a line_diff event after a no_newline event of the same file   *)
(* leaves both flags TRUE; in the returned list a document has              *)
(* to.end_newline = FALSE exactly when the last line_diff or no_newline     *)
(* event of its file is a no_newline event.                                 *)
C19_TrailingNewlineFlag ==
    [][ /\ (n' = n + 1 /\ Unwrap(ev')[1] = "no_newline" /\ pc' # "panic") =>
              /\ ~Unwrap(file_diff').to.end_newline
              /\ Unwrap(file_diff').from.end_newline = Unwrap(file_diff).from.end_newline
        /\ (n' = n + 1 /\ Unwrap(ev')[1] = "line_diff" /\ pc' # "panic"
               /\ nn # <<>> /\ Last(nn) > 0) =>
              /\ Unwrap(file_diff').to.end_newline
              /\ Unwrap(file_diff').from.end_newline
        /\ pc' = "returned" =>
              /\ Len(file_diffs') = Len(lastnn')
              /\ \A i \in 1..Len(file_diffs') :
                    file_diffs'[i].to.end_newline = ~lastnn'[i]
      ]_vars

C19_Witness ==
    /\ pc = "returned"
    /\ nn = <<1>>
    /\ lastnn = <<FALSE>>
    /\ file_diffs[1].to.end_newline
    /\ file_diffs[1].from.end_newline

(* C20: a successful parse_lines returns events whose first is a           *)
(* file_diff_header and in which every line_diff has, after the most recent  *)
(* file_diff_header before it, a chunk_header; on these events the           *)
(* aggregator never takes an unreachable branch, and whenever it holds a     *)
(* current chunk, that chunk is the last chunk of the current document.      *)
C20_WellFormedEvents ==
    /\ (IsSome(result) /\ Unwrap(result).ok) =>
          LET v == Unwrap(result).value
          IN  /\ v # <<>> => v[1][1] = "file_diff_header"
              /\ \A i \in 1..Len(v) :
                    v[i][1] = "line_diff" =>
                       \E j \in 1..(i - 1) :
                          /\ v[j][1] = "chunk_header"
                          /\ \A k \in j..i : v[k][1] # "file_diff_header"
    /\ panicked # Some("unreachable")
    /\ panicked # Some("unknown diff action")
    /\ (pc \in {"aggregator", "returned"} /\ IsSome(chunk_diff)) =>
          /\ IsSome(file_diff)
          /\ Unwrap(file_diff).chunks # <<>>
          /\ Last(Unwrap(file_diff).chunks).from = Unwrap(chunk_diff).from
          /\ Last(Unwrap(file_diff).chunks).to = Unwrap(chunk_diff).to

C20_Witness ==
    /\ pc = "aggregator"
    /\ n >= 6
    /\ TakenState = "file_diff_header"
    /\ Len(file_diffs) = 1
    /\ file_diffs[1].chunks # <<>>
    /\ lines[n - 1][1] = "line_diff"
    /\ chunk_diff = None

(* C21: in every state of the aggregator the document in progress has     *)
(* from.end_newline = TRUE, and so has every document flushed or returned,   *)
(* whatever number of no_newline events its file has taken.                  *)
C21_FromKeepsTrailingNewline ==
    /\ IsSome(file_diff) => Unwrap(file_diff).from.end_newline
    /\ \A i \in 1..Len(file_diffs) : file_diffs[i].from.end_newline

C21_Witness ==
    /\ pc = "returned"
    /\ Len(file_diffs) = 2
    /\ nn = <<2, 1>>
    /\ ~file_diffs[1].to.end_newline
    /\ ~file_diffs[2].to.end_newline
    /\ file_diffs[1].from.end_newline
    /\ file_diffs[2].from.end_newline

(* One boolean per file_diff_header event of evs, in order: whether a      *)
(* binary_diff event comes after that header and before the next one.       *)
RECURSIVE BinaryPerFile(_)
BinaryPerFile(evs) ==
    IF evs = <<>> THEN <<>>
    ELSE LET b == BinaryPerFile(Front(evs))
             st == Last(evs)[1]
         IN  IF st = "file_diff_header" THEN Append(b, FALSE)
             ELSE IF st = "binary_diff" /\ b # <<>> THEN [b EXCEPT ![Len(b)] = TRUE]
             ELSE b

(* The documents the aggregator holds: the flushed ones, then the one in   *)
(* progress while the loop runs.                                            *)
HeldDocuments ==
    IF pc = "returned" THEN file_diffs
    ELSE file_diffs \o (IF IsSome(file_diff) THEN <<Unwrap(file_diff)>> ELSE <<>>)

(* C22: from the state binary_diff parse_line accepts only a file diff     *)
(* header, so in the events classified a binary_diff event is followed by   *)
(* nothing but a file_diff_header, and is preceded in its file by no        *)
(* chunk_header or line_diff; every document the aggregator holds with      *)
(* is_binary = TRUE has no chunks and belongs to a file_diff_header that a  *)
(* binary_diff event followed.                                              *)
C22_BinaryHasNoChunks ==
    /\ \A line \in Lines :
          parse_line(line, "binary_diff").ok =>
             parse_line(line, "binary_diff").state = "file_diff_header"
    /\ \A i \in 1..Len(parses) :
          parses[i][1] = "binary_diff" =>
             /\ i < Len(parses) => parses[i + 1][1] = "file_diff_header"
             /\ \A j \in 1..(i - 1) :
                   parses[j][1] \in {"chunk_header", "line_diff"} =>
                      \E k \in (j + 1)..(i - 1) : parses[k][1] = "file_diff_header"
    /\ \A i \in 1..Len(HeldDocuments) :
          HeldDocuments[i].is_binary => HeldDocuments[i].chunks = <<>>
    /\ pc \in {"aggregator", "returned"} =>
          LET b == BinaryPerFile(SubSeq(lines, 1, n))
          IN  /\ Len(HeldDocuments) = Len(b)
              /\ \A i \in 1..Len(b) : HeldDocuments[i].is_binary => b[i]

C22_Witness ==
    /\ pc = "returned"
    /\ Len(file_diffs) = 2
    /\ file_diffs[1].is_binary
    /\ file_diffs[1].chunks = <<>>
    /\ ~file_diffs[2].is_binary
    /\ lines[3][1] = "binary_diff"
    /\ lines[4][1] = "file_diff_header"

====
